---- MODULE Spec2Model ----
(***************************************************************************)
(* A model of the ELF decoding core of rust-elf: the SysV hash function    *)
(* and hash-table lookup (src/src/hash.rs) and the two-phase file-header   *)
(* parse with the derived program-header range (src/src/file.rs).          *)
(*                                                                         *)
(* TLC's integers are 32-bit signed, so a fixed-width unsigned integer of  *)
(* the program (u16, u32, u64, usize) is kept as the little-endian         *)
(* sequence of its bytes, one sequence element per byte, and every         *)
(* operation on it is the fixed-width operation of the code.  Small        *)
(* quantities (indices, lengths, counts) are plain integers.               *)
(***************************************************************************)
EXTENDS Integers, Sequences, FiniteSets, TLC

VARIABLES
    h_name, h_pos, h_hash, h_pc, h_ret,               \* sysv_hash
    table, symtab, strtab, f_name, f_hash,            \* SysVHashTable::find
    index, i, visited, f_pc, f_ret,
    id_data, id_pc, id_ret,                           \* FileHeader::parse_ident
    t_ident, t_data, t_pc, t_ret,                     \* FileHeader::parse_tail
    p_hdr, p_usize, p_pc, p_ret,                      \* FileHeader::get_phdrs_data_range
    r_endian, r_class, r_data, r_start,               \* Rel::parse_at, Rela::parse_at
    rel_pc, rel_ret, rela_pc, rela_ret,
    n_endian, n_data, n_usize, n_build, n_pc, n_ret   \* SysVHashTable::new

hashVars  == <<h_name, h_pos, h_hash, h_pc, h_ret>>
findVars  == <<table, symtab, strtab, f_name, f_hash, index, i, visited, f_pc, f_ret>>
identVars == <<id_data, id_pc, id_ret>>
tailVars  == <<t_ident, t_data, t_pc, t_ret>>
phdrVars  == <<p_hdr, p_usize, p_pc, p_ret>>
relVars   == <<r_endian, r_class, r_data, r_start, rel_pc, rel_ret, rela_pc, rela_ret>>
newVars   == <<n_endian, n_data, n_usize, n_build, n_pc, n_ret>>
vars      == <<hashVars, findVars, identVars, tailVars, phdrVars, relVars, newVars>>

(***************************************************************************)
(* Bounds of the model.                                                    *)
(***************************************************************************)
MaxNameLen == 8

(***************************************************************************)
(* Results: Ok(value), Err(error), and the abort of the thread (a panic).  *)
(***************************************************************************)
Ok(v)  == [kind |-> "Ok", val |-> v]
Err(e) == [kind |-> "Err", err |-> e]
Panic(why) == [kind |-> "Panic", why |-> why]
Pending == [kind |-> "Pending"]

\* the widths of usize, in bytes, on the targets the crate builds for
UsizeBytes == {2, 4, 8}

\* with and without overflow checks
Builds == {"debug", "release"}

(***************************************************************************)
(* Fixed-width unsigned integers as little-endian byte sequences.          *)
(***************************************************************************)
Zero(n) == [k \in 1..n |-> 0]

Widen(x, n) == x \o Zero(n - Len(x))

Truncate(x, n) == SubSeq(x, 1, n)

\* the value is representable in n bytes
Fits(x, n) == \A k \in 1..Len(x) : k > n => x[k] = 0

Reverse(s) == [k \in 1..Len(s) |-> s[Len(s) + 1 - k]]

RECURSIVE BitAnd(_, _)
BitAnd(a, b) ==
    IF a = 0 \/ b = 0 THEN 0
    ELSE ((a % 2) * (b % 2)) + 2 * BitAnd(a \div 2, b \div 2)

RECURSIVE BitXor(_, _)
BitXor(a, b) ==
    IF a = 0 THEN b
    ELSE IF b = 0 THEN a
    ELSE ((a + b) % 2) + 2 * BitXor(a \div 2, b \div 2)

And(x, y) == [k \in 1..Len(x) |-> BitAnd(x[k], y[k])]

Xor(x, y) == [k \in 1..Len(x) |-> BitXor(x[k], y[k])]

\* x >> (8 * n)
ShrBytes(x, n) == SubSeq(x, n + 1, Len(x)) \o Zero(n)

RECURSIVE MulFrom(_, _, _, _)
MulFrom(x, m, k, c) ==
    IF k > Len(x) THEN <<>>
    ELSE LET t == x[k] * m + c
         IN  <<t % 256>> \o MulFrom(x, m, k + 1, t \div 256)

\* the full product of x and a multiplier below 2^16, three bytes wider than x
MulWide(x, m) == MulFrom(x \o Zero(3), m, 1, 0)

RECURSIVE AddFrom(_, _, _, _)
AddFrom(a, b, k, c) ==
    IF k > Len(a) THEN <<>>
    ELSE LET t == a[k] + b[k] + c
         IN  <<t % 256>> \o AddFrom(a, b, k + 1, t \div 256)

\* the full sum of two integers of the same width, one byte wider
AddWide(a, b) == AddFrom(a \o <<0>>, b \o <<0>>, 1, 0)

\* u32::wrapping_mul and u32::wrapping_add
wrapping_mul(x, m) == Truncate(MulWide(x, m), Len(x))

wrapping_add(x, y) == Truncate(AddWide(x, y), Len(x))

(***************************************************************************)
(* sysv_hash (hash.rs 32-39): the body of the loop over the name bytes,    *)
(* and the final mask.                                                     *)
(***************************************************************************)
HashRoundLowNibble(hash, byte) ==
    LET h1 == wrapping_add(wrapping_mul(hash, 16), Widen(<<byte>>, 4))
    IN  Xor(h1, And(ShrBytes(h1, 3), <<15, 0, 0, 0>>))

HashRound(hash, byte) ==
    LET h1 == wrapping_add(wrapping_mul(hash, 16), Widen(<<byte>>, 4))
    IN  Xor(h1, And(ShrBytes(h1, 3), <<240, 0, 0, 0>>))

HashMask(hash) == And(hash, <<255, 255, 255, 15>>)

HashBytes == {1, 97, 255}

HashNames == UNION {[1..n -> HashBytes] : n \in 0..MaxNameLen}

HashIdle ==
    /\ h_name = <<>> /\ h_pos = 0 /\ h_hash = Zero(4)
    /\ h_pc = "idle" /\ h_ret = Zero(4)

HashInit ==
    /\ h_name \in HashNames
    /\ h_pos = 0
    /\ h_hash = Zero(4)
    /\ h_pc = "loop"
    /\ h_ret = Zero(4)

\* for byte in name { ... }
HashStep ==
    /\ h_pc = "loop"
    /\ h_pos < Len(h_name)
    /\ h_hash' = HashRound(h_hash, h_name[h_pos + 1])
    /\ h_pos' = h_pos + 1
    /\ UNCHANGED <<h_name, h_pc, h_ret>>

\* hash & 0xfffffff
HashReturn ==
    /\ h_pc = "loop"
    /\ h_pos = Len(h_name)
    /\ h_ret' = HashMask(h_hash)
    /\ h_pc' = "done"
    /\ UNCHANGED <<h_name, h_pos, h_hash>>

(***************************************************************************)
(* Decode primitives and lazy tables (crate::parse, crate::symbol,         *)
(* crate::string_table).                                                   *)
(***************************************************************************)
Endians == {"Little", "Big"}

\* the integer of `width` bytes at the 0-based `offset` of data
ReadUint(endian, data, offset, width) ==
    LET raw == SubSeq(data, offset + 1, offset + width)
    IN  IF endian = "Little" THEN raw ELSE Reverse(raw)

\* parse_uN_at: the value and the advanced cursor, or a short read
ParseUintAt(endian, offset, data, width) ==
    IF offset + width > Len(data)
    THEN Err([type |-> "SliceReadError", range |-> <<offset, offset + width>>])
    ELSE Ok([value |-> ReadUint(endian, data, offset, width), offset |-> offset + width])

\* a small value as a plain integer (`as usize` of a value the model keeps small)
RECURSIVE ToNat(_)
ToNat(x) == IF x = <<>> THEN 0 ELSE x[1] + 256 * ToNat(Tail(x))

\* the n-byte encoding of a small value
RECURSIVE FromNat(_, _)
FromNat(v, n) == IF n = 0 THEN <<>> ELSE <<v % 256>> \o FromNat(v \div 256, n - 1)

Encode(endian, v, n) == IF endian = "Little" THEN FromNat(v, n) ELSE Reverse(FromNat(v, n))

\* u32::size_for(class)
U32Size == 4

U32Table(endian, buf) == [endian |-> endian, buf |-> buf]

U32TableLen(t) == Len(t.buf) \div U32Size

U32TableGet(t, idx) ==
    IF idx >= U32TableLen(t)
    THEN Err([type |-> "BadOffset", offset |-> idx])
    ELSE Ok(ReadUint(t.endian, t.buf, idx * U32Size, U32Size))

Symbol(name_off, value) == [st_name |-> name_off, st_value |-> value]

SymtabGet(tab, idx) ==
    IF idx >= Len(tab)
    THEN Err([type |-> "BadOffset", offset |-> idx])
    ELSE Ok(tab[idx + 1])

\* the number of bytes from the 0-based offset up to the terminating NUL, or -1
RECURSIVE StrLenFrom(_, _)
StrLenFrom(tab, offset) ==
    IF offset >= Len(tab) THEN -1
    ELSE IF tab[offset + 1] = 0 THEN 0
    ELSE LET rest == StrLenFrom(tab, offset + 1)
         IN  IF rest = -1 THEN -1 ELSE rest + 1

StrtabGetRaw(tab, offset) ==
    IF offset >= Len(tab)
    THEN Err([type |-> "BadOffset", offset |-> offset])
    ELSE IF StrLenFrom(tab, offset) = -1
    THEN Err([type |-> "StringTableMissingNul", offset |-> offset])
    ELSE Ok(SubSeq(tab, offset + 1, offset + StrLenFrom(tab, offset)))

Some(v) == [some |-> TRUE, v |-> v]
None == [some |-> FALSE]

(***************************************************************************)
(* SysVHashTable::new (hash.rs 51-69).                                     *)
(***************************************************************************)
SysVHashHeader_parse_at(endian, offset, data) ==
    LET nbucket == ParseUintAt(endian, offset, data, 4)
    IN  IF nbucket.kind = "Err" THEN nbucket
        ELSE LET nchain == ParseUintAt(endian, nbucket.val.offset, data, 4)
             IN  IF nchain.kind = "Err" THEN nchain
                 ELSE Ok([value |-> [nbucket |-> nbucket.val.value,
                                     nchain |-> nchain.val.value],
                          offset |-> nchain.val.offset])

\* `x as usize` of a u32
as_usize(x, usz) == IF Len(x) > usz THEN Truncate(x, usz) ELSE Widen(x, usz)

\* usize `*`: an overflow panics where overflow checks are compiled in (debug)
\* and wraps where they are not (release)
usize_mul(x, m, build) ==
    LET p == MulWide(x, m)
    IN  IF Fits(p, Len(x)) \/ build = "release" THEN Ok(Truncate(p, Len(x)))
        ELSE Panic("attempt to multiply with overflow")

\* usize `+`, likewise
usize_add(x, y, build) ==
    LET t == AddWide(x, y)
    IN  IF Fits(t, Len(x)) \/ build = "release" THEN Ok(Truncate(t, Len(x)))
        ELSE Panic("attempt to add with overflow")

\* data.get(from..to): none when the range is reversed or ends past the data
SliceGet(data, from, to) ==
    IF Fits(from, 2) /\ Fits(to, 2) /\ ToNat(from) <= ToNat(to) /\ ToNat(to) <= Len(data)
    THEN Some(SubSeq(data, ToNat(from) + 1, ToNat(to)))
    ELSE None

\* hash.rs 55-59 and 62-66: one table sliced off the data at `offset`
TableAt(endian, data, offset, count, build) ==
    LET size == usize_mul(as_usize(count, Len(offset)), U32Size, build)
    IN  IF size.kind = "Panic" THEN size
        ELSE LET end == usize_add(offset, size.val, build)
             IN  IF end.kind = "Panic" THEN end
                 ELSE LET buf == SliceGet(data, offset, end.val)
                      IN  IF ~buf.some
                          THEN Err([type |-> "BadOffset", offset |-> ToNat(offset)])
                          ELSE Ok([table |-> U32Table(endian, buf.v), offset |-> end.val])

SysVHashTable_new(endian, data, usz, build) ==
    LET hdr == SysVHashHeader_parse_at(endian, 0, data)
    IN  IF hdr.kind = "Err" THEN hdr
        ELSE
        LET buckets == TableAt(endian, data, FromNat(hdr.val.offset, usz),
                               hdr.val.value.nbucket, build)
        IN  IF buckets.kind # "Ok" THEN buckets
            ELSE
            LET chains == TableAt(endian, data, buckets.val.offset,
                                  hdr.val.value.nchain, build)
            IN  IF chains.kind # "Ok" THEN chains
                ELSE Ok([buckets |-> buckets.val.table, chains |-> chains.val.table])

(***************************************************************************)
(* SysVHashTable::find (hash.rs 72-94).                                    *)
(***************************************************************************)
MaxBucket == 2
MaxChain == 3
MaxSym == 3

\* strtab.get_raw(..)? == name, with a mutation that compares only a prefix
NameHasPrefix(raw, name) ==
    /\ Len(raw) >= Len(name)
    /\ SubSeq(raw, 1, Len(name)) = name

NameMatches(raw, name) == raw = name

Return(r) == [kind |-> "Return", ret |-> r]
Continue(idx) == [kind |-> "Continue", index |-> idx]

\* one execution of the loop body (hash.rs 85-91), without the i += 1
LoopBody(t, syms, strs, name, idx) ==
    LET sym == SymtabGet(syms, idx)
    IN  IF sym.kind = "Err" THEN Return(sym)
        ELSE LET raw == StrtabGetRaw(strs, sym.val.st_name)
             IN  IF raw.kind = "Err" THEN Return(raw)
                 ELSE IF NameMatches(raw.val, name)
                      THEN Return(Ok(Some(<<idx, sym.val>>)))
                      ELSE LET nxt == U32TableGet(t.chains, idx)
                           IN  IF nxt.kind = "Err" THEN Return(nxt)
                               ELSE Continue(ToNat(nxt.val))

\* the loop condition (hash.rs 84), with a mutation that drops the step bound
LoopCondUnbounded(t, idx, steps) == idx # 0

\* ... and one that halves it
LoopCondHalved(t, idx, steps) == idx # 0 /\ 2 * steps < U32TableLen(t.chains) - 1

LoopCond(t, idx, steps) == idx # 0 /\ steps < U32TableLen(t.chains)

\* what find returns when the loop condition fails (hash.rs 93), with a
\* mutation that reports an exhausted step bound as an error
LoopExitStrict(t, idx, steps) ==
    IF idx # 0 THEN Err([type |-> "BadOffset", offset |-> idx]) ELSE Ok(None)

LoopExit(t, idx, steps) == Ok(None)

\* The hash sections find is run on: nbucket buckets and nchain chains.  find
\* reads one bucket, so the buckets are the run start, start+1, ... (mod
\* MaxChain + 1); it never reads chain[0], which is 0 as in a real file.
BucketWords == {[k \in 1..n |-> (s + k - 1) % (MaxChain + 1)] :
                    n \in 0..MaxBucket, s \in 0..MaxChain}

ChainWords == {<<>>} \cup
    {<<0>> \o c : c \in UNION {[1..n -> 0..MaxChain] : n \in 0..(MaxChain - 1)}}

RECURSIVE EncodeWords(_, _)
EncodeWords(endian, ws) ==
    IF ws = <<>> THEN <<>>
    ELSE Encode(endian, Head(ws), U32Size) \o EncodeWords(endian, Tail(ws))

HashSection(endian, bs, cs) ==
    EncodeWords(endian, <<Len(bs), Len(cs)>> \o bs \o cs)

\* the string table "\0ab\0a\0": "ab" at 1, "b" at 2, "a" at 4, nothing at 6
FindStrtab == <<0, 97, 98, 0, 97, 0>>

SymNameOffsets == {1, 4, 6}

\* symbol tables: the null symbol, then up to MaxSym - 1 symbols
SymbolTables == {<<>>} \cup
    {[k \in 1..(Len(f) + 1) |-> Symbol(IF k = 1 THEN 0 ELSE f[k - 1], 16 * (k - 1))] :
        f \in UNION {[1..n -> SymNameOffsets] : n \in 0..(MaxSym - 1)}}

FindNames == {<<97>>, <<97, 98>>}

FindHashes == {0, 1}

FindIdle ==
    /\ table = [buckets |-> U32Table("Little", <<>>), chains |-> U32Table("Little", <<>>)]
    /\ symtab = <<>> /\ strtab = <<>> /\ f_name = <<>> /\ f_hash = 0
    /\ index = 0 /\ i = 0 /\ visited = <<>> /\ f_pc = "idle" /\ f_ret = Pending

\* the state after construction: every table SysVHashTable::new accepted
FindInit ==
    /\ \E endian \in Endians, bs \in BucketWords, cs \in ChainWords :
          \* the counts are small: every target and build accepts the same tables
          LET t == SysVHashTable_new(endian, HashSection(endian, bs, cs), 8, "release")
          IN  t.kind = "Ok" /\ table = t.val
    /\ symtab \in SymbolTables
    /\ strtab = FindStrtab
    /\ f_name \in FindNames
    /\ f_hash \in FindHashes
    /\ index = 0 /\ i = 0 /\ visited = <<>>
    /\ f_pc = "start"
    /\ f_ret = Pending

\* hash.rs 79-83: the bucket lookup
FindStart ==
    /\ f_pc = "start"
    /\ IF U32TableLen(table.buckets) = 0
       THEN /\ f_ret' = Panic("remainder with a divisor of zero")
            /\ f_pc' = "done"
            /\ UNCHANGED <<index, i, visited>>
       ELSE LET start == f_hash % U32TableLen(table.buckets)
                first == U32TableGet(table.buckets, start)
            IN  IF first.kind = "Err"
                THEN /\ f_ret' = first
                     /\ f_pc' = "done"
                     /\ UNCHANGED <<index, i, visited>>
                ELSE /\ index' = ToNat(first.val)
                     /\ i' = 0
                     /\ visited' = <<ToNat(first.val)>>
                     /\ f_pc' = "loop"
                     /\ UNCHANGED f_ret
    /\ UNCHANGED <<table, symtab, strtab, f_name, f_hash>>

\* hash.rs 84-92: one iteration of the chain walk
FindIter ==
    /\ f_pc = "loop"
    /\ LoopCond(table, index, i)
    /\ LET b == LoopBody(table, symtab, strtab, f_name, index)
       IN  IF b.kind = "Return"
           THEN /\ f_ret' = b.ret
                /\ f_pc' = "done"
                /\ UNCHANGED <<index, i, visited>>
           ELSE /\ index' = b.index
                /\ i' = i + 1
                /\ visited' = Append(visited, b.index)
                /\ UNCHANGED <<f_pc, f_ret>>
    /\ UNCHANGED <<table, symtab, strtab, f_name, f_hash>>

\* hash.rs 93: the loop condition fails
FindExit ==
    /\ f_pc = "loop"
    /\ ~LoopCond(table, index, i)
    /\ f_ret' = LoopExit(table, index, i)
    /\ f_pc' = "done"
    /\ UNCHANGED <<table, symtab, strtab, f_name, f_hash, index, i, visited>>

(***************************************************************************)
(* The identification block (crate::abi) and FileHeader::parse_ident       *)
(* (file.rs 92-131).                                                       *)
(***************************************************************************)
EI_CLASS == 4
EI_DATA == 5
EI_VERSION == 6
EI_OSABI == 7
EI_ABIVERSION == 8
EI_NIDENT == 16
ELFMAGIC == <<127, 69, 76, 70>>
EV_CURRENT == 1
ELFCLASS32 == 1
ELFCLASS64 == 2
ELFDATA2LSB == 1
ELFDATA2MSB == 2

\* buf[k]: the byte, or the panic of an index out of bounds
Index(buf, k) ==
    IF k < Len(buf) THEN Ok(buf[k + 1]) ELSE Panic("index out of bounds")

\* buf.split_at(mid).0: the head, or the panic of mid > len
SplitAtHead(buf, mid) ==
    IF mid <= Len(buf) THEN Ok(SubSeq(buf, 1, mid)) ELSE Panic("mid > len")

\* the version check made before the magic check
verify_ident_version_first(buf) ==
    LET version == Index(buf, EI_VERSION)
    IN  IF version.kind = "Panic" THEN version
        ELSE IF version.val # EV_CURRENT
        THEN Err([type |-> "UnsupportedVersion",
                  found |-> version.val, expected |-> EV_CURRENT])
        ELSE IF SubSeq(buf, 1, EI_CLASS) # ELFMAGIC
        THEN Err([type |-> "BadMagic", magic |-> SubSeq(buf, 1, EI_CLASS)])
        ELSE Ok(<<>>)

verify_ident(buf) ==
    LET magic == SplitAtHead(buf, EI_CLASS)
    IN  IF magic.kind = "Panic" THEN magic
        ELSE IF magic.val # ELFMAGIC
        THEN Err([type |-> "BadMagic", magic |-> magic.val])
        ELSE LET version == Index(buf, EI_VERSION)
             IN  IF version.kind = "Panic" THEN version
                 ELSE IF version.val # EV_CURRENT
                 THEN Err([type |-> "UnsupportedVersion",
                           found |-> version.val, expected |-> EV_CURRENT])
                 ELSE Ok(<<>>)

parse_ident(data) ==
    LET verified == verify_ident(data)
    IN  IF verified.kind # "Ok" THEN verified
        ELSE
        LET e_class    == Index(data, EI_CLASS)
            ei_data    == Index(data, EI_DATA)
            osabi      == Index(data, EI_OSABI)
            abiversion == Index(data, EI_ABIVERSION)
        IN  IF e_class.kind = "Panic" THEN e_class
            ELSE IF e_class.val \notin {ELFCLASS32, ELFCLASS64}
            THEN Err([type |-> "UnsupportedElfClass", class |-> e_class.val])
            ELSE IF ei_data.kind = "Panic" THEN ei_data
            ELSE IF osabi.kind = "Panic" THEN osabi
            ELSE IF abiversion.kind = "Panic" THEN abiversion
            ELSE Ok(<<ei_data.val,
                      IF e_class.val = ELFCLASS32 THEN "ELF32" ELSE "ELF64",
                      osabi.val, abiversion.val>>)

MaxExtra == 1

\* identification blocks: each magic byte right or wrong, the class, endian
\* code, version, OS ABI and ABI version bytes from small sets, the rest zero
IdentBlocks ==
    {<<m0, m1, m2, m3, c, d, v, o, a>> \o Zero(EI_NIDENT + MaxExtra - 9) :
        m0 \in {127, 255}, m1 \in {69, 255}, m2 \in {76, 255}, m3 \in {70, 255},
        c \in {0, 1, 2, 3}, d \in {0, 1, 2, 3}, v \in {0, 1, 42},
        o \in {3}, a \in {0, 7}}

IdentInit ==
    /\ \E block \in IdentBlocks, n \in 0..(EI_NIDENT + MaxExtra) :
          id_data = SubSeq(block, 1, n)
    /\ id_pc = "call"
    /\ id_ret = Pending

ParseIdent ==
    /\ id_pc = "call"
    /\ id_ret' = parse_ident(id_data)
    /\ id_pc' = "done"
    /\ UNCHANGED id_data

(***************************************************************************)
(* FileHeader::parse_tail (file.rs 133-186).                               *)
(***************************************************************************)
ELF32_EHDR_TAILSIZE == 36
ELF64_EHDR_TAILSIZE == 48

\* AnyEndian::from_ei_data
from_ei_data(ei_data) ==
    IF ei_data = ELFDATA2LSB THEN Ok("Little")
    ELSE IF ei_data = ELFDATA2MSB THEN Ok("Big")
    ELSE Err([type |-> "UnsupportedElfEndianness", ei_data |-> ei_data])

Field(name, width, stored) == [name |-> name, width |-> width, stored |-> stored]

\* the fields with e_shoff read before e_phoff
TailFieldsSwapped(class) ==
    LET aw == IF class = "ELF32" THEN 4 ELSE 8
    IN  << Field("e_type", 2, 2), Field("e_machine", 2, 2), Field("version", 4, 4),
           Field("e_entry", aw, 8), Field("e_shoff", aw, 8), Field("e_phoff", aw, 8),
           Field("e_flags", 4, 4), Field("e_ehsize", 2, 2), Field("e_phentsize", 2, 2),
           Field("e_phnum", 2, 2), Field("e_shentsize", 2, 2), Field("e_shnum", 2, 2),
           Field("e_shstrndx", 2, 2) >>

\* the fields with the ELF32 arm reading e_shoff at the ELF64 width
TailFieldsWide(class) ==
    LET aw == IF class = "ELF32" THEN 4 ELSE 8
    IN  << Field("e_type", 2, 2), Field("e_machine", 2, 2), Field("version", 4, 4),
           Field("e_entry", aw, 8), Field("e_phoff", aw, 8), Field("e_shoff", 8, 8),
           Field("e_flags", 4, 4), Field("e_ehsize", 2, 2), Field("e_phentsize", 2, 2),
           Field("e_phnum", 2, 2), Field("e_shentsize", 2, 2), Field("e_shnum", 2, 2),
           Field("e_shstrndx", 2, 2) >>

\* the reads of parse_tail in order (file.rs 141-165): the field, the width
\* read, and the width of the field it is stored in (`as u64` widens)
TailFields(class) ==
    LET aw == IF class = "ELF32" THEN 4 ELSE 8
    IN  << Field("e_type", 2, 2), Field("e_machine", 2, 2), Field("version", 4, 4),
           Field("e_entry", aw, 8), Field("e_phoff", aw, 8), Field("e_shoff", aw, 8),
           Field("e_flags", 4, 4), Field("e_ehsize", 2, 2), Field("e_phentsize", 2, 2),
           Field("e_phnum", 2, 2), Field("e_shentsize", 2, 2), Field("e_shnum", 2, 2),
           Field("e_shstrndx", 2, 2) >>

\* the reads from field k on, each `?` returning the first short read
RECURSIVE ParseFieldsFrom(_, _, _, _, _, _)
ParseFieldsFrom(endian, data, fields, k, offset, acc) ==
    IF k > Len(fields) THEN Ok(acc)
    ELSE LET r == ParseUintAt(endian, offset, data, fields[k].width)
         IN  IF r.kind = "Err" THEN r
             ELSE ParseFieldsFrom(endian, data, fields, k + 1, r.val.offset,
                     (fields[k].name :> Widen(r.val.value, fields[k].stored)) @@ acc)

parse_tail_reads_first(ident, data) ==
    LET ei_data     == ident[1]
        class       == ident[2]
        osabi       == ident[3]
        abiversion  == ident[4]
        file_endian == from_ei_data(ei_data)
        decoded     == ParseFieldsFrom(IF file_endian.kind = "Ok" THEN file_endian.val
                                       ELSE "Little",
                           data, TailFields(class), 1, 0,
                           [class |-> class, ei_data |-> ei_data,
                            osabi |-> osabi, abiversion |-> abiversion])
    IN  IF decoded.kind = "Err" THEN decoded
        ELSE IF file_endian.kind = "Err" THEN file_endian
        ELSE decoded

parse_tail(ident, data) ==
    LET ei_data     == ident[1]
        class       == ident[2]
        osabi       == ident[3]
        abiversion  == ident[4]
        file_endian == from_ei_data(ei_data)
    IN  IF file_endian.kind = "Err" THEN file_endian
        ELSE ParseFieldsFrom(file_endian.val, data, TailFields(class), 1, 0,
                [class |-> class, ei_data |-> ei_data,
                 osabi |-> osabi, abiversion |-> abiversion])

\* tail buffers: byte k is (seed + k * stride) mod 256
TailPatterns == {<<0, 1>>, <<0, 0>>, <<255, 0>>, <<128, 37>>}

TailBuffer(pat, n) == [k \in 1..n |-> (pat[1] + (k - 1) * pat[2]) % 256]

TailInit ==
    /\ t_ident \in {<<d, c, 3, a>> : d \in {0, 1, 2, 3}, c \in {"ELF32", "ELF64"}, a \in {0, 7}}
    /\ \E pat \in TailPatterns, n \in 0..(ELF64_EHDR_TAILSIZE + MaxExtra) :
          t_data = TailBuffer(pat, n)
    /\ t_pc = "call"
    /\ t_ret = Pending

ParseTail ==
    /\ t_pc = "call"
    /\ t_ret' = parse_tail(t_ident, t_data)
    /\ t_pc' = "done"
    /\ UNCHANGED <<t_ident, t_data>>

(***************************************************************************)
(* FileHeader::get_phdrs_data_range (file.rs 193-208).  usize is p_usize   *)
(* bytes wide on the target.                                               *)
(***************************************************************************)
\* ProgramHeader::validate_entsize: the one entry size of the class
PhdrSize(class) == IF class = "ELF32" THEN 32 ELSE 56

validate_entsize(class, entsize) ==
    IF entsize = PhdrSize(class) THEN Ok(entsize)
    ELSE Err([type |-> "BadEntsize", found |-> entsize, expected |-> PhdrSize(class)])

\* u64 -> usize try_into
try_into_usize(x, usz) ==
    IF Fits(x, usz) THEN Ok(Truncate(x, usz)) ELSE Err([type |-> "TryFromIntError"])

\* usize::checked_mul, by a multiplier below 2^16
checked_mul(x, m) ==
    IF Fits(MulWide(x, m), Len(x)) THEN Some(Truncate(MulWide(x, m), Len(x))) ELSE None

\* the sum taken modulo the width instead of checked
checked_add_wrapping(x, y) == Some(wrapping_add(x, y))

\* usize::checked_add
checked_add(x, y) ==
    IF Fits(AddWide(x, y), Len(x)) THEN Some(Truncate(AddWide(x, y), Len(x))) ELSE None

\* the entry size validated before the count is tested
get_phdrs_data_range_validate_first(self, usz) ==
    LET entsize == validate_entsize(self.class, ToNat(self.e_phentsize))
    IN  IF entsize.kind = "Err" THEN entsize
        ELSE IF ToNat(self.e_phnum) = 0 THEN Ok(None)
        ELSE
        LET start == try_into_usize(self.e_phoff, usz)
        IN  IF start.kind = "Err" THEN start
            ELSE
            LET size == checked_mul(FromNat(entsize.val, usz), ToNat(self.e_phnum))
            IN  IF ~size.some THEN Err([type |-> "IntegerOverflow"])
                ELSE
                LET end == checked_add(start.val, size.v)
                IN  IF ~end.some THEN Err([type |-> "IntegerOverflow"])
                    ELSE Ok(Some(<<start.val, end.v>>))

get_phdrs_data_range(self, usz) ==
    IF ToNat(self.e_phnum) = 0 THEN Ok(None)
    ELSE
    LET entsize == validate_entsize(self.class, ToNat(self.e_phentsize))
    IN  IF entsize.kind = "Err" THEN entsize
        ELSE
        LET start == try_into_usize(self.e_phoff, usz)
        IN  IF start.kind = "Err" THEN start
            ELSE
            LET size == checked_mul(FromNat(entsize.val, usz), ToNat(self.e_phnum))
            IN  IF ~size.some THEN Err([type |-> "IntegerOverflow"])
                ELSE
                LET end == checked_add(start.val, size.v)
                IN  IF ~end.some THEN Err([type |-> "IntegerOverflow"])
                    ELSE Ok(Some(<<start.val, end.v>>))

\* offsets around the ends of the 8, 16, 32 and 64 bit ranges
PhoffValues ==
    {Widen(<<b>> \o [k \in 1..n |-> f], 8) :
        b \in {0, 64, 199, 200, 223, 224, 255}, f \in {0, 255}, n \in {0, 1, 3, 7}}

PhnumValues == {0, 1, 2, 1170, 1171, 2047, 2048, 65535}

PhentsizeValues == {0, 32, 56, 64}

PhdrInit ==
    /\ \E class \in {"ELF32", "ELF64"}, off \in PhoffValues,
          es \in PhentsizeValues, n \in PhnumValues :
          p_hdr = [class |-> class, e_phoff |-> off,
                   e_phentsize |-> FromNat(es, 2), e_phnum |-> FromNat(n, 2)]
    /\ p_usize \in UsizeBytes
    /\ p_pc = "call"
    /\ p_ret = Pending

GetPhdrsDataRange ==
    /\ p_pc = "call"
    /\ p_ret' = get_phdrs_data_range(p_hdr, p_usize)
    /\ p_pc' = "done"
    /\ UNCHANGED <<p_hdr, p_usize>>

(***************************************************************************)
(* Rel::parse_at and Rela::parse_at (relocation.rs 13-41, 51-83).  r_offset *)
(* and r_addend are 8 bytes, r_sym and r_type 4 bytes.                      *)
(***************************************************************************)
RelClasses == {"ELF32", "ELF64"}

\* the width of the offset, info and addend fields
RelWord(class) == IF class = "ELF32" THEN 4 ELSE 8

\* `as i64` of an i32: two's-complement sign extension
SignExtend(x, n) ==
    IF x[Len(x)] >= 128 THEN x \o [k \in 1..(n - Len(x)) |-> 255] ELSE Widen(x, n)

r_sym_split16(class, r_info) ==
    IF class = "ELF32" THEN ShrBytes(r_info, 2) ELSE Truncate(ShrBytes(r_info, 4), 4)

\* r_info >> 8, or (r_info >> 32) as u32
r_sym(class, r_info) ==
    IF class = "ELF32" THEN ShrBytes(r_info, 1) ELSE Truncate(ShrBytes(r_info, 4), 4)

\* r_info & 0xFF, or (r_info & 0xFFFFFFFF) as u32
r_type(class, r_info) ==
    IF class = "ELF32" THEN And(r_info, <<255, 0, 0, 0>>)
    ELSE Truncate(And(r_info, <<255, 255, 255, 255, 0, 0, 0, 0>>), 4)

Rel_parse_at(endian, class, offset, data) ==
    LET off == ParseUintAt(endian, offset, data, RelWord(class))
    IN  IF off.kind = "Err" THEN off
        ELSE LET info == ParseUintAt(endian, off.val.offset, data, RelWord(class))
             IN  IF info.kind = "Err" THEN info
                 ELSE Ok([value |-> [r_offset |-> Widen(off.val.value, 8),
                                     r_sym    |-> r_sym(class, info.val.value),
                                     r_type   |-> r_type(class, info.val.value)],
                          offset |-> info.val.offset])

Rela_parse_at(endian, class, offset, data) ==
    LET off == ParseUintAt(endian, offset, data, RelWord(class))
    IN  IF off.kind = "Err" THEN off
        ELSE LET info == ParseUintAt(endian, off.val.offset, data, RelWord(class))
             IN  IF info.kind = "Err" THEN info
                 ELSE LET addend == ParseUintAt(endian, info.val.offset, data, RelWord(class))
                      IN  IF addend.kind = "Err" THEN addend
                          ELSE Ok([value |-> [r_offset |-> Widen(off.val.value, 8),
                                              r_sym    |-> r_sym(class, info.val.value),
                                              r_type   |-> r_type(class, info.val.value),
                                              r_addend |-> SignExtend(addend.val.value, 8)],
                                   offset |-> addend.val.offset])

\* info words to decode: the documented 0x00000704, and words with every byte set
RelInfos == {<<4, 7, 0, 0>>, <<4, 5, 6, 7>>, <<255, 255, 255, 255>>, <<0, 0, 0, 128>>}

\* an entry holding offset 0x...0201, the info word (in the high half too for
\* ELF64) and a negative addend, in the byte order of `endian`
RelEntry(endian, class, w) ==
    LET put(x) == IF endian = "Little" THEN x ELSE Reverse(x)
        info   == IF class = "ELF32" THEN w ELSE Reverse(w) \o w
    IN  put(Widen(<<1, 2>>, RelWord(class))) \o put(info)
            \o put([k \in 1..RelWord(class) |-> 255])

RelInit ==
    /\ r_endian \in Endians
    /\ r_class \in RelClasses
    /\ r_start \in 0..MaxExtra
    /\ \E w \in RelInfos, n \in 0..(r_start + 3 * RelWord(r_class) + MaxExtra) :
          r_data = SubSeq(Zero(r_start) \o RelEntry(r_endian, r_class, w) \o Zero(MaxExtra),
                          1, n)
    /\ rel_pc = "call" /\ rel_ret = Pending
    /\ rela_pc = "call" /\ rela_ret = Pending

ParseRel ==
    /\ rel_pc = "call"
    /\ rel_ret' = Rel_parse_at(r_endian, r_class, r_start, r_data)
    /\ rel_pc' = "done"
    /\ UNCHANGED <<r_endian, r_class, r_data, r_start, rela_pc, rela_ret>>

ParseRela ==
    /\ rela_pc = "call"
    /\ rela_ret' = Rela_parse_at(r_endian, r_class, r_start, r_data)
    /\ rela_pc' = "done"
    /\ UNCHANGED <<r_endian, r_class, r_data, r_start, rel_pc, rel_ret>>

(***************************************************************************)
(* SysVHashTable::new over whole and cut-off hash sections.                 *)
(***************************************************************************)
\* nbucket and nchain as the header can carry them: small counts, and counts
\* around 2^16 and 2^30, where four times the count passes 16 and 32 bits
NewCounts ==
    {FromNat(v, U32Size) : v \in 0..MaxChain}
        \cup {<<0, 0, 1, 0>>, <<0, 0, 0, 64>>, <<254, 255, 255, 63>>, <<255, 255, 255, 255>>}

\* a header with the two counts, then words 1, 2, 3, ... and loose bytes
NewSection(endian, nb, nc) ==
    LET put(x) == IF endian = "Little" THEN x ELSE Reverse(x)
    IN  put(nb) \o put(nc)
            \o EncodeWords(endian, [k \in 1..(MaxBucket + MaxChain) |-> k])
            \o [k \in 1..MaxExtra |-> 255]

NewInit ==
    /\ n_endian \in Endians
    /\ n_usize \in UsizeBytes
    /\ n_build \in Builds
    /\ \E nb \in NewCounts, nc \in NewCounts :
          \E n \in 0..Len(NewSection(n_endian, nb, nc)) :
              n_data = SubSeq(NewSection(n_endian, nb, nc), 1, n)
    /\ n_pc = "call"
    /\ n_ret = Pending

New ==
    /\ n_pc = "call"
    /\ n_ret' = SysVHashTable_new(n_endian, n_data, n_usize, n_build)
    /\ n_pc' = "done"
    /\ UNCHANGED <<n_endian, n_data, n_usize, n_build>>

(***************************************************************************)
(* The two phases in sequence: parse_ident over a whole identification      *)
(* block, then parse_tail over the bytes after it with the tuple phase 1    *)
(* returned.                                                                *)
(***************************************************************************)
HeaderInit ==
    /\ \E block \in IdentBlocks : id_data = SubSeq(block, 1, EI_NIDENT)
    /\ id_pc = "call"
    /\ id_ret = Pending
    /\ t_ident = <<>>
    /\ \E n \in 0..(ELF64_EHDR_TAILSIZE + MaxExtra) : t_data = TailBuffer(<<0, 1>>, n)
    /\ t_pc = "wait"
    /\ t_ret = Pending

ParseTailOfIdent ==
    /\ id_pc = "done" /\ id_ret.kind = "Ok"
    /\ t_pc = "wait"
    /\ t_ident' = id_ret.val
    /\ t_ret' = parse_tail(id_ret.val, t_data)
    /\ t_pc' = "done"
    /\ UNCHANGED <<t_data, identVars>>

(***************************************************************************)
(* Specifications.                                                         *)
(***************************************************************************)
IdentIdle == id_data = <<>> /\ id_pc = "idle" /\ id_ret = Pending

TailIdle == t_ident = <<>> /\ t_data = <<>> /\ t_pc = "idle" /\ t_ret = Pending

PhdrIdle == p_hdr = <<>> /\ p_usize = 0 /\ p_pc = "idle" /\ p_ret = Pending

RelIdle ==
    /\ r_endian = "Little" /\ r_class = "ELF32" /\ r_data = <<>> /\ r_start = 0
    /\ rel_pc = "idle" /\ rel_ret = Pending /\ rela_pc = "idle" /\ rela_ret = Pending

NewIdle ==
    /\ n_endian = "Little" /\ n_data = <<>> /\ n_usize = 0 /\ n_build = "release"
    /\ n_pc = "idle" /\ n_ret = Pending

\* FileHeader::get_phdrs_data_range over every header and usize width
PhdrSpecInit == HashIdle /\ FindIdle /\ IdentIdle /\ TailIdle /\ PhdrInit /\ RelIdle /\ NewIdle

PhdrNext == GetPhdrsDataRange /\ UNCHANGED <<hashVars, findVars, identVars, tailVars, relVars, newVars>>

PhdrSpec == PhdrSpecInit /\ [][PhdrNext]_vars

\* FileHeader::parse_ident over every identification buffer
IdentSpecInit == HashIdle /\ FindIdle /\ IdentInit /\ TailIdle /\ PhdrIdle /\ RelIdle /\ NewIdle

IdentNext == ParseIdent /\ UNCHANGED <<hashVars, findVars, tailVars, phdrVars, relVars, newVars>>

IdentSpec == IdentSpecInit /\ [][IdentNext]_vars

\* FileHeader::parse_tail over every ident tuple and tail buffer
TailSpecInit == HashIdle /\ FindIdle /\ IdentIdle /\ TailInit /\ PhdrIdle /\ RelIdle /\ NewIdle

TailNext == ParseTail /\ UNCHANGED <<hashVars, findVars, identVars, phdrVars, relVars, newVars>>

TailSpec == TailSpecInit /\ [][TailNext]_vars

\* sysv_hash over every name
HashSpecInit == HashInit /\ FindIdle /\ IdentIdle /\ TailIdle /\ PhdrIdle /\ RelIdle /\ NewIdle

HashNext ==
    \/ HashStep /\ UNCHANGED <<findVars, identVars, tailVars, phdrVars, relVars, newVars>>
    \/ HashReturn /\ UNCHANGED <<findVars, identVars, tailVars, phdrVars, relVars, newVars>>

HashSpec == HashSpecInit /\ [][HashNext]_vars

\* SysVHashTable::find over every accepted table
FindSpecInit == HashIdle /\ FindInit /\ IdentIdle /\ TailIdle /\ PhdrIdle /\ RelIdle /\ NewIdle

FindNext ==
    \/ FindStart /\ UNCHANGED <<hashVars, identVars, tailVars, phdrVars, relVars, newVars>>
    \/ FindIter /\ UNCHANGED <<hashVars, identVars, tailVars, phdrVars, relVars, newVars>>
    \/ FindExit /\ UNCHANGED <<hashVars, identVars, tailVars, phdrVars, relVars, newVars>>

FindSpec == FindSpecInit /\ [][FindNext]_vars

\* Rel::parse_at and Rela::parse_at over the same entry
RelSpecInit == HashIdle /\ FindIdle /\ IdentIdle /\ TailIdle /\ PhdrIdle /\ RelInit /\ NewIdle

RelNext ==
    \/ ParseRel /\ UNCHANGED <<hashVars, findVars, identVars, tailVars, phdrVars, newVars>>
    \/ ParseRela /\ UNCHANGED <<hashVars, findVars, identVars, tailVars, phdrVars, newVars>>

RelSpec == RelSpecInit /\ [][RelNext]_vars

\* SysVHashTable::new over every section
NewSpecInit == HashIdle /\ FindIdle /\ IdentIdle /\ TailIdle /\ PhdrIdle /\ RelIdle /\ NewInit

NewNext ==
    New /\ UNCHANGED <<hashVars, findVars, identVars, tailVars, phdrVars, relVars>>

NewSpec == NewSpecInit /\ [][NewNext]_vars

\* parse_ident, then parse_tail with its result
HeaderSpecInit == HashIdle /\ FindIdle /\ HeaderInit /\ PhdrIdle /\ RelIdle /\ NewIdle

HeaderNext ==
    \/ ParseIdent /\ UNCHANGED <<hashVars, findVars, tailVars, phdrVars, relVars, newVars>>
    \/ ParseTailOfIdent /\ UNCHANGED <<hashVars, findVars, phdrVars, relVars, newVars>>

HeaderSpec == HeaderSpecInit /\ [][HeaderNext]_vars

(***************************************************************************)
(* Properties of SysVHashTable::find.                                      *)
(***************************************************************************)
ChainCount == U32TableLen(table.chains)

BucketCount == U32TableLen(table.buckets)

\* the word of a table as a number
WordAt(t, k) == ToNat(ReadUint(t.endian, t.buf, 4 * k, 4))

\* the steps find can still take: it strictly decreases and is never negative
FindMeasure ==
    IF f_pc = "start" THEN ChainCount + 2
    ELSE IF f_pc = "loop" THEN ChainCount - i + 1
    ELSE 0

\* C1: find always terminates: the step counter i never exceeds chainCount
\* (= chains.len()), at most chainCount loop iterations are performed, and
\* every step of find strictly decreases a measure that is never negative, so
\* find returns after at most chainCount + 2 steps, cyclic chains included.
FindTerminates ==
    /\ [](i <= ChainCount /\ Len(visited) <= ChainCount + 1)
    /\ [][FindMeasure' < FindMeasure /\ FindMeasure' >= 0]_vars

\* a walk on a cyclic chain that never reaches 0 was stopped by the step bound
FindBoundHit ==
    /\ f_pc = "done"
    /\ ChainCount >= 2
    /\ i = ChainCount
    /\ index # 0
    /\ \A k \in 1..Len(visited) : visited[k] # 0

\* C2: find never panics: on every table new accepted, nbucket = 0 included,
\* the result is found, not found or a ParseError, never an abort.
FindNeverPanics == f_ret.kind # "Panic"

\* the bytes of the string table at the offset are exactly the name
NameAt(offset, name) ==
    /\ offset + Len(name) < Len(strtab)
    /\ \A j \in 1..Len(name) : strtab[offset + j] = name[j]
    /\ strtab[offset + Len(name) + 1] = 0

\* the indices visited are a walk from bucket[hash mod bucketCount] along chain links
IsChainWalk(walk) ==
    /\ walk # <<>>
    /\ BucketCount > 0
    /\ walk[1] = WordAt(table.buckets, f_hash % BucketCount)
    /\ \A k \in 1..(Len(walk) - 1) :
          /\ walk[k] < ChainCount
          /\ walk[k + 1] = WordAt(table.chains, walk[k])

FindFound == f_pc = "done" /\ f_ret.kind = "Ok" /\ f_ret.val.some

\* C3: find is sound: a found (index, symbol) has a non-zero index reached from
\* bucket[hash mod bucketCount] along chain links, symbol is the symbol table's
\* entry at index, its name is exactly the queried name, and no index visited
\* earlier on the walk has that name.
FindSound ==
    FindFound =>
        LET idx == f_ret.val.v[1]
            sym == f_ret.val.v[2]
        IN  /\ idx # 0
            /\ IsChainWalk(visited)
            /\ idx = visited[Len(visited)]
            /\ idx < Len(symtab)
            /\ sym = symtab[idx + 1]
            /\ NameAt(sym.st_name, f_name)
            /\ \A k \in 1..(Len(visited) - 1) :
                  /\ visited[k] < Len(symtab)
                  /\ ~NameAt(symtab[visited[k] + 1].st_name, f_name)

\* a match found at the second index of a walk, behind another symbol whose
\* name has the query as a proper prefix
FindFoundSecond ==
    /\ FindFound
    /\ Len(visited) = 2
    /\ visited[1] # visited[2]
    /\ f_name = <<97>>
    /\ symtab[visited[1] + 1].st_name = 1

\* C4: when find leaves the loop without a match, because index 0 was reached
\* or because the step bound was hit, the result is "not found" (Ok(None)),
\* never an error.
FindExitIsNotFound ==
    (f_pc = "done" /\ visited # <<>> /\ (index = 0 \/ i >= ChainCount))
        => f_ret = Ok(None)

\* the cyclic chain chain[1] = 1 was walked to the step bound and gave "not found"
FindCycleNotFound ==
    /\ f_pc = "done"
    /\ f_ret = Ok(None)
    /\ ChainCount >= 2
    /\ i = ChainCount
    /\ index = 1
    /\ \A k \in 1..Len(visited) : visited[k] = 1

(***************************************************************************)
(* Properties of sysv_hash.                                                *)
(***************************************************************************)
\* The reference works on the 8 hexadecimal digits of the accumulator, least
\* significant first.
RECURSIVE NibblesOf(_)
NibblesOf(x) ==
    IF x = <<>> THEN <<>> ELSE <<x[1] % 16, x[1] \div 16>> \o NibblesOf(Tail(x))

\* a XOR b for two hexadecimal digits
Xor4(a, b) ==
    ((a + b) % 2)
    + 2 * (((a \div 2) + (b \div 2)) % 2)
    + 4 * (((a \div 4) + (b \div 4)) % 2)
    + 8 * (((a \div 8) + (b \div 8)) % 2)

RECURSIVE RefAddFrom(_, _, _, _)
RefAddFrom(a, b, k, c) ==
    IF k > 8 THEN <<>>
    ELSE LET t == a[k] + b[k] + c
         IN  <<t % 16>> \o RefAddFrom(a, b, k + 1, t \div 16)

\* (acc*16 + byte) mod 2^32: the digits move up one place, the top one is lost
RefMulAdd(acc, byte) ==
    RefAddFrom(<<0>> \o SubSeq(acc, 1, 7),
               <<byte % 16, byte \div 16, 0, 0, 0, 0, 0, 0>>, 1, 0)

\* acc XOR ((acc >> 24) AND 0xf0): digit 8 is bits 28..31, digit 2 is bits 4..7
RefFold(acc) == [k \in 1..8 |-> IF k = 2 THEN Xor4(acc[2], acc[8]) ELSE acc[k]]

RefRound(acc, byte) == RefFold(RefMulAdd(acc, byte))

RECURSIVE RefAcc(_, _)
RefAcc(name, n) ==
    IF n = 0 THEN [k \in 1..8 |-> 0] ELSE RefRound(RefAcc(name, n - 1), name[n])

\* acc AND 0x0fffffff
RefMask(acc) == [k \in 1..8 |-> IF k = 8 THEN 0 ELSE acc[k]]

RefHash(name) == RefMask(RefAcc(name, Len(name)))

\* C5: sysv_hash(name) equals the reference recurrence over the name bytes:
\* acc starts at 0; per byte acc = (acc*16 + byte) mod 2^32, then
\* acc = acc XOR ((acc >> 24) AND 0xf0); the result is acc AND 0x0fffffff.
\* So the hash of the empty name is 0 and every result is below 2^28.
HashMatchesReference ==
    /\ h_pc = "loop" => NibblesOf(h_hash) = RefAcc(h_name, h_pos)
    /\ h_pc = "done" =>
          /\ NibblesOf(h_ret) = RefHash(h_name)
          /\ h_ret[4] < 16
          /\ (h_name = <<>> => h_ret = <<0, 0, 0, 0>>)

\* a name long enough that the accumulator wrapped and its top nibble was folded
HashFolded ==
    /\ h_pc = "done"
    /\ Len(h_name) = MaxNameLen
    /\ h_hash[4] >= 16
    /\ h_ret # h_hash

(***************************************************************************)
(* Properties of FileHeader::parse_tail.                                   *)
(***************************************************************************)
TailRequired(class) ==
    IF class = "ELF32" THEN ELF32_EHDR_TAILSIZE ELSE ELF64_EHDR_TAILSIZE

TailEndianValid == t_ident[1] \in {ELFDATA2LSB, ELFDATA2MSB}

\* C6: with a valid endian code, parse_tail fails with a short read
\* (SliceReadError) for every tail length in [0, requiredSize) and succeeds at
\* exactly requiredSize, 36 for ELF32 and 48 for ELF64; a failure carries no
\* FileHeader.
TailShortRead ==
    (t_pc = "done" /\ TailEndianValid) =>
        /\ Len(t_data) < TailRequired(t_ident[2]) =>
              /\ t_ret.kind = "Err"
              /\ t_ret.err.type = "SliceReadError"
              /\ DOMAIN t_ret = {"kind", "err"}
        /\ Len(t_data) = TailRequired(t_ident[2]) => t_ret.kind = "Ok"

\* a tail one byte short of the required size was rejected
TailOneByteShort ==
    /\ t_pc = "done"
    /\ TailEndianValid
    /\ Len(t_data) = TailRequired(t_ident[2]) - 1
    /\ t_ret.kind = "Err"

\* the integer of w bytes at the fixed 0-based offset, in the declared byte
\* order, zero-extended to `stored` bytes; least significant byte first
FieldAt(off, w, stored) ==
    [j \in 1..stored |->
        IF j > w THEN 0
        ELSE IF t_ident[1] = ELFDATA2LSB THEN t_data[off + j]
        ELSE t_data[off + w + 1 - j]]

\* C7: parse_tail decodes the fields in file order at fixed offsets in the
\* declared byte order: type(2), machine(2), version(4), then entry, phoff and
\* shoff at class width (4 or 8 bytes) zero-extended to 64 bits, then flags(4)
\* and six 16-bit fields.  For ELF32 the address fields are below 2^32, bytes
\* past the required size are ignored, and class, ei_data, osabi and
\* abiversion are those of the ident tuple.
TailDecodesInOrder ==
    (t_pc = "done" /\ t_ret.kind = "Ok") =>
        LET h  == t_ret.val
            aw == IF t_ident[2] = "ELF32" THEN 4 ELSE 8
            f  == 8 + 3 * aw
        IN  /\ h.e_type = FieldAt(0, 2, 2)
            /\ h.e_machine = FieldAt(2, 2, 2)
            /\ h.version = FieldAt(4, 4, 4)
            /\ h.e_entry = FieldAt(8, aw, 8)
            /\ h.e_phoff = FieldAt(8 + aw, aw, 8)
            /\ h.e_shoff = FieldAt(8 + 2 * aw, aw, 8)
            /\ h.e_flags = FieldAt(f, 4, 4)
            /\ h.e_ehsize = FieldAt(f + 4, 2, 2)
            /\ h.e_phentsize = FieldAt(f + 6, 2, 2)
            /\ h.e_phnum = FieldAt(f + 8, 2, 2)
            /\ h.e_shentsize = FieldAt(f + 10, 2, 2)
            /\ h.e_shnum = FieldAt(f + 12, 2, 2)
            /\ h.e_shstrndx = FieldAt(f + 14, 2, 2)
            /\ t_ident[2] = "ELF32" =>
                  \A k \in 5..8 : h.e_entry[k] = 0 /\ h.e_phoff[k] = 0 /\ h.e_shoff[k] = 0
            /\ t_ret = parse_tail(t_ident, SubSeq(t_data, 1, TailRequired(t_ident[2])))
            /\ <<h.ei_data, h.class, h.osabi, h.abiversion>> = t_ident
            /\ DOMAIN h = {"class", "ei_data", "version", "osabi", "abiversion",
                           "e_type", "e_machine", "e_entry", "e_phoff", "e_shoff",
                           "e_flags", "e_ehsize", "e_phentsize", "e_phnum",
                           "e_shentsize", "e_shnum", "e_shstrndx"}

\* the tail 0, 1, 2, ... decoded as ELF32 little-endian, with bytes to spare
TailCounting32 ==
    /\ t_pc = "done"
    /\ t_ident = <<ELFDATA2LSB, "ELF32", 3, 7>>
    /\ Len(t_data) > ELF32_EHDR_TAILSIZE
    /\ t_ret.kind = "Ok"
    /\ t_ret.val.e_entry = <<8, 9, 10, 11, 0, 0, 0, 0>>
    /\ t_ret.val.e_shoff = <<16, 17, 18, 19, 0, 0, 0, 0>>
    /\ t_ret.val.e_shstrndx = <<34, 35>>

(***************************************************************************)
(* Properties of FileHeader::parse_ident.                                  *)
(***************************************************************************)
IdentMagicOk == Len(id_data) >= 4 /\ SubSeq(id_data, 1, 4) = <<127, 69, 76, 70>>

\* C8: parse_ident checks magic, then version, then class: a wrong magic byte
\* gives BadMagic with the 4 observed bytes whatever the version and class
\* are; otherwise a version other than 1 gives UnsupportedVersion(observed, 1)
\* whatever the class is; otherwise a class other than 1 and 2 gives
\* UnsupportedClass with that byte.
IdentChecksInOrder ==
    id_pc = "done" =>
        /\ (Len(id_data) >= 4 /\ ~IdentMagicOk) =>
              id_ret = Err([type |-> "BadMagic", magic |-> SubSeq(id_data, 1, 4)])
        /\ (Len(id_data) >= 7 /\ IdentMagicOk /\ id_data[7] # 1) =>
              id_ret = Err([type |-> "UnsupportedVersion",
                            found |-> id_data[7], expected |-> 1])
        /\ (Len(id_data) >= 7 /\ IdentMagicOk /\ id_data[7] = 1
                /\ id_data[5] \notin {1, 2}) =>
              id_ret = Err([type |-> "UnsupportedElfClass", class |-> id_data[5]])

\* a block wrong in magic, version and class at once was reported as BadMagic
IdentAllWrong ==
    /\ id_pc = "done"
    /\ Len(id_data) >= EI_NIDENT
    /\ id_data[3] = 255
    /\ id_data[7] = 42
    /\ id_data[5] = 3
    /\ id_ret.kind = "Err"
    /\ id_ret.err.type = "BadMagic"

\* C9: parse_ident tolerates truncated input: a buffer shorter than the
\* 16-byte identification block, the empty one included, gets a typed failure,
\* never a panic and never success.
IdentTolerant ==
    (id_pc = "done" /\ Len(id_data) < EI_NIDENT) => id_ret.kind = "Err"

(***************************************************************************)
(* Properties of FileHeader::get_phdrs_data_range.                         *)
(***************************************************************************)
\* entsize * e_phnum, which is below 2^22
PhdrTableSize == PhdrSize(p_hdr.class) * ToNat(p_hdr.e_phnum)

\* e_phoff is not representable in usize
PhoffUnfit == \E k \in 1..8 : k > p_usize /\ p_hdr.e_phoff[k] # 0

\* entsize * e_phnum exceeds usize::MAX
PhdrMulOverflows == p_usize < 3 /\ PhdrTableSize >= 2 ^ (8 * p_usize)

\* e_phoff + size exceeds usize::MAX: size exceeds usize::MAX - e_phoff, whose
\* bytes are the complements of the bytes of e_phoff
PhdrAddOverflows ==
    LET room == [k \in 1..p_usize |-> 255 - p_hdr.e_phoff[k]]
    IN  /\ \A k \in 1..p_usize : k > 3 => room[k] = 0
        /\ ToNat(SubSeq(room, 1, IF p_usize < 3 THEN p_usize ELSE 3)) < PhdrTableSize

RECURSIVE SubFrom(_, _, _, _)
SubFrom(a, b, k, borrow) ==
    IF k > Len(a) THEN <<borrow>>
    ELSE LET t == a[k] - b[k] - borrow
         IN  <<t % 256>> \o SubFrom(a, b, k + 1, IF t < 0 THEN 1 ELSE 0)

\* C10: get_phdrs_data_range never wraps: with a non-zero program-header count
\* and the entry size of the class, it fails with an overflow or range error
\* whenever entsize * e_phnum or e_phoff + entsize * e_phnum exceeds the usize
\* range or e_phoff is not representable in usize; when it succeeds it returns
\* exactly (e_phoff, e_phoff + entsize * e_phnum), so start <= end and
\* end - start = entsize * e_phnum.
PhdrRangeNeverWraps ==
    (/\ p_pc = "done"
     /\ ToNat(p_hdr.e_phnum) # 0
     /\ ToNat(p_hdr.e_phentsize) = PhdrSize(p_hdr.class)) =>
        IF PhoffUnfit \/ PhdrMulOverflows \/ PhdrAddOverflows
        THEN /\ p_ret.kind = "Err"
             /\ p_ret.err.type \in {"IntegerOverflow", "TryFromIntError"}
        ELSE /\ p_ret.kind = "Ok"
             /\ p_ret.val.some
             /\ LET start == p_ret.val.v[1]
                    end   == p_ret.val.v[2]
                IN  /\ Len(start) = p_usize /\ Len(end) = p_usize
                    /\ Widen(start, 8) = p_hdr.e_phoff
                    /\ SubFrom(end, start, 1, 0) = FromNat(PhdrTableSize, p_usize) \o <<0>>

\* on a 64-bit target the offset fits and the sum e_phoff + size overflowed
PhdrSumOverflowed ==
    /\ p_pc = "done"
    /\ p_usize = 8
    /\ ToNat(p_hdr.e_phnum) # 0
    /\ ToNat(p_hdr.e_phentsize) = PhdrSize(p_hdr.class)
    /\ PhdrAddOverflows
    /\ p_ret = Err([type |-> "IntegerOverflow"])

\* C11: get_phdrs_data_range returns "none" (Ok(None)), not an error, whenever
\* e_phnum is 0, for every e_phoff and e_phentsize, an entry size invalid for
\* the class and an offset that does not fit usize included.
PhdrNoneWhenEmpty ==
    (p_pc = "done" /\ ToNat(p_hdr.e_phnum) = 0) => p_ret = Ok(None)

\* no program headers, an entry size wrong for the class and an offset that
\* does not fit a 32-bit usize: the answer was "none"
PhdrEmptyAndInvalid ==
    /\ p_pc = "done"
    /\ ToNat(p_hdr.e_phnum) = 0
    /\ ToNat(p_hdr.e_phentsize) # PhdrSize(p_hdr.class)
    /\ p_usize = 4
    /\ PhoffUnfit
    /\ p_ret = Ok(None)

(***************************************************************************)
(* Properties of Rel::parse_at and Rela::parse_at.                         *)
(***************************************************************************)
\* the info word of the entry, as the bytes at its place in the buffer give it
RelInfoAt ==
    ReadUint(r_endian, r_data, r_start + RelWord(r_class), RelWord(r_class))

\* sym * 2^(8 * shift) + type, 8 bytes wide
RelRejoin(sym, type, shift) ==
    Truncate(AddWide(Zero(shift) \o Widen(sym, 8 - shift), Widen(type, 8)), 8)

RelSplitOf(v) ==
    IF r_class = "ELF32"
    THEN /\ Fits(v.r_type, 1)
         /\ Fits(v.r_sym, 3)
         /\ RelRejoin(v.r_sym, v.r_type, 1) = Widen(RelInfoAt, 8)
    ELSE RelRejoin(v.r_sym, v.r_type, 4) = RelInfoAt

\* C12: Rel and Rela split the info word by class: ELF32 gives r_type < 2^8,
\* r_sym < 2^24 and r_sym * 2^8 + r_type = info; ELF64 gives
\* r_sym * 2^32 + r_type = info; and Rel and Rela decode the same r_offset,
\* r_sym and r_type from the same leading bytes.
RelSplitsInfoByClass ==
    /\ (rel_pc = "done" /\ rel_ret.kind = "Ok") => RelSplitOf(rel_ret.val.value)
    /\ (rela_pc = "done" /\ rela_ret.kind = "Ok") =>
          /\ RelSplitOf(rela_ret.val.value)
          /\ rel_pc = "done" =>
                /\ rel_ret.kind = "Ok"
                /\ rel_ret.val.value.r_offset = rela_ret.val.value.r_offset
                /\ rel_ret.val.value.r_sym = rela_ret.val.value.r_sym
                /\ rel_ret.val.value.r_type = rela_ret.val.value.r_type

\* the documented example: ELF32 info 0x00000704 gives symbol 7, type 4
RelExample704 ==
    /\ rel_pc = "done" /\ rela_pc = "done"
    /\ r_class = "ELF32"
    /\ rel_ret.kind = "Ok" /\ rela_ret.kind = "Ok"
    /\ RelInfoAt = <<4, 7, 0, 0>>
    /\ rel_ret.val.value.r_sym = <<7, 0, 0, 0>>
    /\ rel_ret.val.value.r_type = <<4, 0, 0, 0>>
    /\ rela_ret.val.value.r_sym = <<7, 0, 0, 0>>

(***************************************************************************)
(* Properties of SysVHashTable::new.                                       *)
(***************************************************************************)
\* the header's counts, as the first eight bytes give them
NewNbucket == ReadUint(n_endian, n_data, 0, U32Size)

NewNchain == ReadUint(n_endian, n_data, U32Size, U32Size)

\* the words the buffer holds after the header
NewWordsHeld == (Len(n_data) - 2 * U32Size) \div U32Size

\* the buffer holds nbucket words and then nchain words after the header
NewTablesHeld ==
    /\ Fits(NewNbucket, 1) /\ ToNat(NewNbucket) <= NewWordsHeld
    /\ Fits(NewNchain, 1) /\ ToNat(NewNchain) <= NewWordsHeld - ToNat(NewNbucket)

\* C13: once the 8-byte header decodes, SysVHashTable::new returns BadOffset
\* when the buffer does not hold nbucket * 4 bytes and then nchain * 4 bytes
\* after it, and otherwise succeeds with exactly nbucket bucket entries and
\* nchain chain entries taken, in that order, from the bytes after the header.
NewFailsEagerly ==
    (n_pc = "done" /\ Len(n_data) >= 2 * U32Size) =>
        IF NewTablesHeld
        THEN /\ n_ret.kind = "Ok"
             /\ U32TableLen(n_ret.val.buckets) = ToNat(NewNbucket)
             /\ U32TableLen(n_ret.val.chains) = ToNat(NewNchain)
             /\ n_ret.val.buckets.buf =
                    SubSeq(n_data, 2 * U32Size + 1, (2 + ToNat(NewNbucket)) * U32Size)
             /\ n_ret.val.chains.buf =
                    SubSeq(n_data, (2 + ToNat(NewNbucket)) * U32Size + 1,
                           (2 + ToNat(NewNbucket) + ToNat(NewNchain)) * U32Size)
        ELSE n_ret.kind = "Err" /\ n_ret.err.type = "BadOffset"

\* the same on targets whose usize is 64 bits wide
NewFailsEagerlyOn64 == n_usize = 8 => NewFailsEagerly

(***************************************************************************)
(* Properties of the two phases together.                                  *)
(***************************************************************************)
\* the block is whole and its magic, version and class are valid
IdentValidButEndian ==
    /\ Len(id_data) >= EI_NIDENT
    /\ IdentMagicOk
    /\ id_data[EI_VERSION + 1] = EV_CURRENT
    /\ id_data[EI_CLASS + 1] \in {ELFCLASS32, ELFCLASS64}

\* C14: the endian code is validated in phase 2 only, and first there:
\* parse_ident succeeds and returns the endian byte verbatim whatever its
\* value (magic, version and class being valid), and parse_tail given a code
\* other than 1 or 2 returns the unsupported-encoding error for every tail
\* length, 0 included, never a short read.
EndianCheckedFirstInTail ==
    /\ (id_pc = "done" /\ IdentValidButEndian) =>
          /\ id_ret.kind = "Ok"
          /\ id_ret.val[1] = id_data[EI_DATA + 1]
    /\ (t_pc = "done" /\ t_ident[1] \notin {ELFDATA2LSB, ELFDATA2MSB}) =>
          t_ret = Err([type |-> "UnsupportedElfEndianness", ei_data |-> t_ident[1]])

\* endian code 3 passed phase 1 and was refused over an empty tail
EndianRefusedOnEmptyTail ==
    /\ id_pc = "done" /\ id_ret.kind = "Ok"
    /\ id_data[EI_DATA + 1] = 3
    /\ t_pc = "done"
    /\ t_ident[1] = 3
    /\ t_data = <<>>
    /\ t_ret.kind = "Err"
    /\ t_ret.err.type = "UnsupportedElfEndianness"

(***************************************************************************)
(* Completeness of SysVHashTable::find.                                    *)
(***************************************************************************)
\* the walk from idx along chain links, up to index 0, an index outside the
\* chain table, or n nodes
RECURSIVE ChainWalkFrom(_, _)
ChainWalkFrom(idx, n) ==
    IF idx = 0 \/ n = 0 THEN <<>>
    ELSE IF idx >= ChainCount THEN <<idx>>
    ELSE <<idx>> \o ChainWalkFrom(WordAt(table.chains, idx), n - 1)

\* the walk from bucket[hash mod bucketCount], longer than any walk without a
\* repeated node
BucketWalk ==
    IF BucketCount = 0 THEN <<>>
    ELSE ChainWalkFrom(WordAt(table.buckets, f_hash % BucketCount), 2 * ChainCount + 1)

\* every index on the walk is in the chain table and the symbol table, and
\* the name of its symbol can be fetched
WalkValid(walk) ==
    \A k \in 1..Len(walk) :
        /\ walk[k] < ChainCount
        /\ walk[k] < Len(symtab)
        /\ StrtabGetRaw(strtab, symtab[walk[k] + 1].st_name).kind = "Ok"

WalkHasMatch(walk) ==
    \E k \in 1..Len(walk) : NameAt(symtab[walk[k] + 1].st_name, f_name)

\* C15: find is complete within its step bound: when every index on the walk
\* from bucket[hash mod bucketCount] along chain links is a valid index of the
\* chain table and the symbol table and every name fetch succeeds, and some
\* symbol on that walk has the queried name, find returns found.
FindComplete ==
    (f_pc = "done" /\ WalkValid(BucketWalk) /\ WalkHasMatch(BucketWalk)) => FindFound

\* a match on the last of chainCount - 1 distinct nodes, the longest walk
\* without a repeated node
FindFoundAtLastNode ==
    /\ FindFound
    /\ ChainCount >= 3
    /\ Len(visited) = ChainCount - 1
    /\ \A j, k \in 1..Len(visited) : j # k => visited[j] # visited[k]
    /\ WalkValid(BucketWalk)
====
